---- MODULE Spec2Model ----
(***************************************************************************)
(* Model of the partner_bot referral bot: the User Store                   *)
(* (utils/database.py), the Ledger Client (utils/sheets-old2.py) and the   *)
(* admission workflow (handlers/admin.py, handlers/start-old.py).          *)
(*                                                                         *)
(* Python strings are sequences of one-character strings, so that strip,   *)
(* startswith and str() are computed and not assumed.                      *)
(***************************************************************************)
EXTENDS Integers, Sequences, FiniteSets, Bags, TLC

\* ------------------------------------------------------------------------
\* Bounds of the model
\* ------------------------------------------------------------------------
MaxTasks == 1
MaxClock == 1
MaxRows == 3
MaxThreads == 2
MaxHandlers == 2

\* ------------------------------------------------------------------------
\* Python values
\* ------------------------------------------------------------------------
\* Python's None where a string is expected: a sequence that is no string.
None == <<"<None>">>

Digit(d) ==
    CASE d = 0 -> "0" [] d = 1 -> "1" [] d = 2 -> "2" [] d = 3 -> "3"
      [] d = 4 -> "4" [] d = 5 -> "5" [] d = 6 -> "6" [] d = 7 -> "7"
      [] d = 8 -> "8" [] d = 9 -> "9"

RECURSIVE str(_)
\* str(n) of a non-negative int: its decimal digits.
str(n) == IF n < 10 THEN <<Digit(n)>> ELSE Append(str(n \div 10), Digit(n % 10))

IsSpace(c) == c = " "

RECURSIVE lstrip(_)
lstrip(s) == IF s # <<>> /\ IsSpace(Head(s)) THEN lstrip(Tail(s)) ELSE s

RECURSIVE rstrip(_)
rstrip(s) ==
    IF s # <<>> /\ IsSpace(s[Len(s)]) THEN rstrip(SubSeq(s, 1, Len(s) - 1)) ELSE s

\* str.strip()
strip(s) == rstrip(lstrip(s))

\* str.startswith(prefix)
startswith(s, prefix) ==
    Len(s) >= Len(prefix) /\ SubSeq(s, 1, Len(prefix)) = prefix

\* ------------------------------------------------------------------------
\* Configuration and inputs
\* ------------------------------------------------------------------------
\* ADMIN_USER_ID, the default of os.getenv in get_admin_user_id.
get_admin_user_id == 1454702347

\* Telegram users that talk to the bot besides the administrator.
UserIds == {7, 42}

\* The accounts that send /start and press the approve and reject buttons:
\* the administrator and a user who is not.
Actors == {7, get_admin_user_id}

\* Texts a user can send as a name.
LongText == [i \in 1..51 |-> "x"]
Texts == {<<>>, <<" ", "A">>, <<" ", "A", "l", " ">>, LongText}

\* Phone numbers a shared contact can carry (the empty one: no phone_number).
Phones == {<<>>, <<"+", "1">>}

\* Values of a username argument: None when the account has no username.
Usernames == {None, <<"a", "d", "m">>, <<"@", "b", "o", "s", "s">>}

\* from_user.username of each Telegram account.
from_user_username(user_id) ==
    IF user_id = get_admin_user_id THEN <<"b", "o", "s", "s">>
    ELSE IF user_id = 42 THEN <<"t", "e", "s", "t">>
    ELSE None

\* ------------------------------------------------------------------------
\* User Store (utils/database.py)
\* ------------------------------------------------------------------------
\* SQL NULL in the approved_at column.
NULL == -1

\* The two clocks the store reads. SQLite's CURRENT_TIMESTAMP is the time in
\* UTC; datetime.now() is the naive local time of the host. Both are given
\* the local wall clock and the offset of local time from UTC.
CURRENT_TIMESTAMP(local, offset) == local - offset

datetime_now(local, offset) == local

\* Mutant: the values are bound to the wrong columns.
save_user_swapped(db, telegram_id, name, phone, approved, now, fault) ==
    IF fault \/ telegram_id \in DOMAIN db THEN [ret |-> FALSE, db |-> db]
    ELSE [ret |-> TRUE,
          db |-> db @@ (telegram_id :>
                    [name |-> phone, phone |-> name, approved |-> approved,
                     created_at |-> now, approved_at |-> NULL])]

\* Mutant: INSERT OR REPLACE without the existence check.
save_user_replace(db, telegram_id, name, phone, approved, now, fault) ==
    IF fault THEN [ret |-> FALSE, db |-> db]
    ELSE [ret |-> TRUE,
          db |-> [i \in DOMAIN db \cup {telegram_id} |->
                    IF i = telegram_id
                    THEN [name |-> name, phone |-> phone,
                          approved |-> approved, created_at |-> now,
                          approved_at |-> NULL]
                    ELSE db[i]]]

\* The users table: a function from the telegram_id of each stored row to
\* [name, phone, approved, created_at, approved_at].
save_user(db, telegram_id, name, phone, approved, now, fault) ==
    IF fault THEN [ret |-> FALSE, db |-> db]
    ELSE IF telegram_id \in DOMAIN db THEN [ret |-> FALSE, db |-> db]
    ELSE [ret |-> TRUE,
          db |-> db @@ (telegram_id :>
                    [name |-> name, phone |-> phone, approved |-> approved,
                     created_at |-> now, approved_at |-> NULL])]

\* Mutant: the row is read without its approved flag.
get_user_stale(db, telegram_id, fault) ==
    IF fault \/ telegram_id \notin DOMAIN db THEN <<>>
    ELSE <<[telegram_id |-> telegram_id]
             @@ [db[telegram_id] EXCEPT !.approved = FALSE]>>

\* get_user: <<>> is None, <<row>> the dict of the row.
get_user(db, telegram_id, fault) ==
    IF fault THEN <<>>
    ELSE IF telegram_id \in DOMAIN db
         THEN <<[telegram_id |-> telegram_id] @@ db[telegram_id]>>
         ELSE <<>>

\* Mutant: approved_at is written only when approving.
update_user_approval_keep_stamp(db, telegram_id, approved, now, fault) ==
    IF fault \/ telegram_id \notin DOMAIN db THEN [ret |-> FALSE, db |-> db]
    ELSE [ret |-> TRUE,
          db |-> [db EXCEPT ![telegram_id].approved = approved,
                            ![telegram_id].approved_at =
                                IF approved THEN now ELSE @]]

\* Mutant: a missing row is inserted (an upsert in place of the UPDATE).
update_user_approval_upsert(db, telegram_id, approved, now, fault) ==
    IF fault THEN [ret |-> FALSE, db |-> db]
    ELSE [ret |-> telegram_id \in DOMAIN db,
          db |-> [i \in DOMAIN db \cup {telegram_id} |->
                    [name |-> IF i \in DOMAIN db THEN db[i].name ELSE <<>>,
                     phone |-> IF i \in DOMAIN db THEN db[i].phone ELSE <<>>,
                     created_at |-> IF i \in DOMAIN db THEN db[i].created_at
                                                        ELSE now,
                     approved |-> IF i = telegram_id THEN approved
                                  ELSE db[i].approved,
                     approved_at |-> IF i # telegram_id THEN db[i].approved_at
                                     ELSE IF approved THEN now ELSE NULL]]]

\* Mutant: the except branch reports success.
update_user_approval_swallow(db, telegram_id, approved, now, fault) ==
    IF fault \/ telegram_id \notin DOMAIN db THEN [ret |-> TRUE, db |-> db]
    ELSE [ret |-> TRUE,
          db |-> [db EXCEPT ![telegram_id].approved = approved,
                            ![telegram_id].approved_at =
                                IF approved THEN now ELSE NULL]]

update_user_approval(db, telegram_id, approved, now, fault) ==
    IF fault THEN [ret |-> FALSE, db |-> db]
    ELSE IF telegram_id \notin DOMAIN db THEN [ret |-> FALSE, db |-> db]
    ELSE [ret |-> TRUE,
          db |-> [db EXCEPT ![telegram_id].approved = approved,
                            ![telegram_id].approved_at =
                                IF approved THEN now ELSE NULL]]

\* Mutant: the WHERE clause is lost.
delete_user_all(db, telegram_id, fault) ==
    IF fault THEN [ret |-> FALSE, db |-> db]
    ELSE IF telegram_id \notin DOMAIN db THEN [ret |-> FALSE, db |-> db]
    ELSE [ret |-> TRUE, db |-> <<>>]

\* Mutant: the fault is met after the deletion took effect.
delete_user_fault_late(db, telegram_id, fault) ==
    IF telegram_id \notin DOMAIN db THEN [ret |-> FALSE, db |-> db]
    ELSE [ret |-> ~fault,
          db |-> [i \in DOMAIN db \ {telegram_id} |-> db[i]]]

delete_user(db, telegram_id, fault) ==
    IF fault THEN [ret |-> FALSE, db |-> db]
    ELSE IF telegram_id \notin DOMAIN db THEN [ret |-> FALSE, db |-> db]
    ELSE [ret |-> TRUE,
          db |-> [i \in DOMAIN db \ {telegram_id} |-> db[i]]]

\* Mutant: the gate asks for a record, approved or not.
is_user_registered(db, telegram_id, fault) ==
    get_user(db, telegram_id, fault) # <<>>

is_user_approved(db, telegram_id, fault) ==
    LET user == get_user(db, telegram_id, fault)
    IN  IF user # <<>> THEN user[1].approved ELSE FALSE

\* The orders in which a SELECT ... ORDER BY key ASC can return the rows of
\* ids: every arrangement with non-decreasing keys (key maps an id to its sort key). SQL leaves the order of
\* rows with equal keys open; NULL sorts before every value.
OrderBy(ids, key) ==
    {f \in [1..Cardinality(ids) -> ids] :
        /\ \A i, j \in 1..Cardinality(ids) : i # j => f[i] # f[j]
        /\ \A i, j \in 1..Cardinality(ids) : i < j => key[f[i]] <= key[f[j]]}

\* Mutant: the query has lost its WHERE approved = FALSE.
get_pending_users_all(db, fault) ==
    IF fault THEN {<<>>}
    ELSE LET ids == DOMAIN db
             key == [id \in ids |-> db[id].created_at]
         IN  {[i \in 1..Cardinality(ids) |->
                  [telegram_id |-> f[i], name |-> db[f[i]].name,
                   phone |-> db[f[i]].phone,
                   created_at |-> db[f[i]].created_at]] :
              f \in OrderBy(ids, key)}

\* get_pending_users: the lists the query can return (one, unless created_at
\* values tie).
get_pending_users(db, fault) ==
    IF fault THEN {<<>>}
    ELSE LET ids == {id \in DOMAIN db : ~db[id].approved}
             key == [id \in ids |-> db[id].created_at]
         IN  {[i \in 1..Cardinality(ids) |->
                  [telegram_id |-> f[i], name |-> db[f[i]].name,
                   phone |-> db[f[i]].phone,
                   created_at |-> db[f[i]].created_at]] :
              f \in OrderBy(ids, key)}

get_approved_users(db, fault) ==
    IF fault THEN {<<>>}
    ELSE LET ids == {id \in DOMAIN db : db[id].approved}
             key == [id \in ids |-> db[id].approved_at]
         IN  {[i \in 1..Cardinality(ids) |->
                  [telegram_id |-> f[i], name |-> db[f[i]].name,
                   phone |-> db[f[i]].phone,
                   approved_at |-> db[f[i]].approved_at]] :
              f \in OrderBy(ids, key)}

\* ------------------------------------------------------------------------
\* Ledger Client (utils/sheets-old2.py)
\* ------------------------------------------------------------------------
\* The worksheet: a sequence of rows, each a sequence of cells; row 1 is the
\* header.
Header == << <<"I", "D">>, <<"N">>, <<"C">>, <<"U">>, <<"R">> >>

\* worksheet.find(query, in_column=col): the row of the first cell of the
\* column equal to query, 0 for None.
find(ws, query, in_column) ==
    LET hits == {r \in 1..Len(ws) :
                    Len(ws[r]) >= in_column /\ ws[r][in_column] = query}
    IN  IF hits = {} THEN 0
        ELSE CHOOSE r \in hits : \A q \in hits : r <= q

_safe_value(val) ==
    IF val = None THEN <<"-">>
    ELSE LET val_str == strip(val)
         IN  IF val_str # <<>> THEN val_str ELSE <<"-">>

\* Mutant: the "@" is put in front whatever the value.
formatted_username_always(username) == <<"@">> \o _safe_value(username)

formatted_username(username) ==
    LET f == _safe_value(username)
    IN  IF f # <<"-">> /\ ~startswith(f, <<"@">>) THEN <<"@">> \o f ELSE f

\* Mutant: name and contact change places.
row_data_swapped(partnercode, name, contact, username, referral_source) ==
    <<partnercode, _safe_value(contact), _safe_value(name),
      formatted_username(username), _safe_value(referral_source)>>

row_data(partnercode, name, contact, username, referral_source) ==
    <<partnercode, _safe_value(name), _safe_value(contact),
      formatted_username(username), _safe_value(referral_source)>>

\* Mutant: the existence check is lost.
find_partnercode_blind(ws, partnercode, fault) ==
    IF fault THEN "raised" ELSE "missing"

\* _add_partnercode_sync up to its existence check: get_client, the opening
\* of the worksheet or find raises (fault), or the key is found or not.
find_partnercode(ws, partnercode, fault) ==
    IF fault THEN "raised"
    ELSE IF find(ws, partnercode, 1) # 0 THEN "exists" ELSE "missing"

\* Mutant: the exception is raised after the row was appended.
append_partner_late(ws, row, fault) ==
    [ret |-> ~fault, ws |-> Append(ws, row)]

\* worksheet.append_row and the return of _add_partnercode_sync; an
\* exception of append_row is caught and False returned.
append_partner(ws, row, fault) ==
    IF fault THEN [ret |-> FALSE, ws |-> ws]
    ELSE [ret |-> TRUE, ws |-> Append(ws, row)]

\* One uninterrupted run of _add_partnercode_sync. fault: where an exception
\* is raised ("none", "find": get_client/open/find, "append": append_row).
_add_partnercode_sync(ws, partnercode, name, contact, username, referral_source, fault) ==
    LET cell == find_partnercode(ws, partnercode, fault = "find")
    IN  IF cell = "raised" THEN [ret |-> FALSE, ws |-> ws]
        ELSE IF cell = "exists" THEN [ret |-> TRUE, ws |-> ws]
        ELSE append_partner(ws, row_data(partnercode, name, contact, username,
                                         referral_source), fault = "append")

add_partnercode(ws, partnercode, name, contact, username, referral_source, fault) ==
    _add_partnercode_sync(ws, partnercode, name, contact, username,
                          referral_source, fault)

\* Python's float(str) on the texts a cell of the model can hold: surrounding
\* whitespace is dropped, then an optional sign, then digits with at most one
\* period and at least one digit. A comma is no part of the grammar. The
\* value is counted in hundredths; the cells of the model have at most two
\* digits after the period and none of float's other forms (exponent,
\* underscore, inf, nan). ok FALSE: ValueError.
IsDigit(c) == c \in {"0", "1", "2", "3", "4", "5", "6", "7", "8", "9"}

DigitValue(c) == CHOOSE d \in 0..9 : Digit(d) = c

RECURSIVE DigitsValue(_)
DigitsValue(s) ==
    IF s = <<>> THEN 0
    ELSE 10 * DigitsValue(SubSeq(s, 1, Len(s) - 1)) + DigitValue(s[Len(s)])

float(value) ==
    LET s == strip(value)
        signed == s # <<>> /\ Head(s) \in {"+", "-"}
        body == IF signed THEN Tail(s) ELSE s
        dots == {i \in 1..Len(body) : body[i] = "."}
        dot == IF dots = {} THEN Len(body) + 1 ELSE CHOOSE i \in dots : TRUE
        whole == SubSeq(body, 1, dot - 1)
        frac == SubSeq(body, dot + 1, Len(body))
        ok == /\ Cardinality(dots) <= 1
              /\ \A i \in 1..Len(whole) : IsDigit(whole[i])
              /\ \A i \in 1..Len(frac) : IsDigit(frac[i])
              /\ Len(whole) + Len(frac) >= 1
              /\ Len(frac) <= 2
        hundredths == 100 * DigitsValue(whole)
                        + (IF Len(frac) = 1 THEN 10 ELSE 1) * DigitsValue(frac)
    IN  IF ~ok THEN [ok |-> FALSE, value |-> 0]
        ELSE [ok |-> TRUE,
              value |-> IF signed /\ Head(s) = "-" THEN 0 - hundredths
                                                   ELSE hundredths]

\* worksheet.row_values(row): the cells of the row up to its last cell that
\* is not empty.
RECURSIVE row_values(_, _)
row_values(ws, row) ==
    IF ws[row] # <<>> /\ ws[row][Len(ws[row])] = <<>>
    THEN row_values([ws EXCEPT ![row] = SubSeq(@, 1, Len(@) - 1)], row)
    ELSE ws[row]

\* The loop of _get_balance_sync: balance += float(value), a ValueError
\* skipped.
RECURSIVE sum_floats(_)
sum_floats(values) ==
    IF values = <<>> THEN 0
    ELSE sum_floats(SubSeq(values, 1, Len(values) - 1))
            + (LET f == float(values[Len(values)])
               IN  IF f.ok THEN f.value ELSE 0)

\* Mutant: the superseded definition of lines 148-179, which skips the first
\* column only.
_get_balance_sync_from_second_column(ws, partnercode, fault) ==
    IF fault = "find" THEN [raised |-> FALSE, balance |-> 0]
    ELSE LET cell == find(ws, partnercode, 1)
         IN  IF cell = 0 \/ fault = "row_values"
             THEN [raised |-> FALSE, balance |-> 0]
             ELSE LET values == row_values(ws, cell)
                  IN  [raised |-> FALSE,
                       balance |-> sum_floats(SubSeq(values, 2, Len(values)))]

\* Mutant: the try block is lost and the exception reaches the caller.
_get_balance_sync_unguarded(ws, partnercode, fault) ==
    IF fault = "find" THEN [raised |-> TRUE, balance |-> 0]
    ELSE LET cell == find(ws, partnercode, 1)
         IN  IF cell = 0 THEN [raised |-> FALSE, balance |-> 0]
             ELSE IF fault = "row_values" THEN [raised |-> TRUE, balance |-> 0]
             ELSE LET values == row_values(ws, cell)
                  IN  [raised |-> FALSE,
                       balance |-> sum_floats(SubSeq(values, 5, Len(values)))]

\* Mutant: the row read is the last one keyed by the id.
_get_balance_sync_last_row(ws, partnercode, fault) ==
    IF fault = "find" THEN [raised |-> FALSE, balance |-> 0]
    ELSE LET hits == {r \in 1..Len(ws) : ws[r][1] = partnercode}
         IN  IF hits = {} \/ fault = "row_values"
             THEN [raised |-> FALSE, balance |-> 0]
             ELSE LET cell == CHOOSE r \in hits : \A q \in hits : q <= r
                      values == row_values(ws, cell)
                  IN  [raised |-> FALSE,
                       balance |-> sum_floats(SubSeq(values, 5, Len(values)))]

\* The definition of _get_balance_sync in force (the second one of the
\* file). fault: where an exception is raised ("none", "find":
\* get_client/open/find, "row_values"). balance is in hundredths; raised:
\* an exception leaves the function.
_get_balance_sync(ws, partnercode, fault) ==
    IF fault = "find" THEN [raised |-> FALSE, balance |-> 0]
    ELSE LET cell == find(ws, partnercode, 1)
         IN  IF cell = 0 THEN [raised |-> FALSE, balance |-> 0]
             ELSE IF fault = "row_values" THEN [raised |-> FALSE, balance |-> 0]
             ELSE LET values == row_values(ws, cell)
                  IN  IF values = <<>> THEN [raised |-> FALSE, balance |-> 0]
                      ELSE [raised |-> FALSE,
                            balance |-> sum_floats(SubSeq(values, 5,
                                                          Len(values)))]

get_balance(ws, partnercode, fault) == _get_balance_sync(ws, partnercode, fault)

BalanceFaults == {"none", "find", "row_values"}

\* _test_connection_sync: every exception of get_client, of the opening of
\* the worksheet and of the read of cell (1, 1) is caught.
_test_connection_sync(ws, fault) ==
    [raised |-> FALSE, ret |-> ~fault]

test_connection(ws, fault) == _test_connection_sync(ws, fault)

\* get_worksheet_info: its body is the call of _get_worksheet_info_sync, a
\* name the module does not define (the def line 189 is a comment, and lines
\* 190-208 follow the return of get_balance_async as dead code): the call
\* raises NameError whatever the ledger does.
get_worksheet_info(ws, fault) ==
    [raised |-> TRUE, value |-> <<>>]

LedgerFaults == {"none", "find", "append"}

LedgerFault(fault) == IF fault \in LedgerFaults THEN fault ELSE "none"

\* ------------------------------------------------------------------------
\* Admission workflow (handlers/admin.py)
\* ------------------------------------------------------------------------
\* Mutant: the comparison with the configured id is lost.
is_admin_everyone(user_id) == user_id = user_id

is_admin(user_id) == user_id = get_admin_user_id

\* What the synchronous part of an invocation leaves behind. stage is the
\* answer given when the handler returns at once, "notify" when it goes on to
\* its notifications.
Outcome(stage, db, ws) ==
    [stage |-> stage, db |-> db, ws |-> ws, faulted |-> FALSE,
     setCalled |-> FALSE, setOk |-> FALSE, ledgerCalled |-> FALSE,
     ledgerOk |-> FALSE]

\* Mutant: the guard on the approved flag is lost.
already_approved_never(user) == FALSE

\* The guard of approve_user on the row it read.
already_approved(user) == user[1].approved

\* Mutant: the notifications do not wait for the ledger's answer.
approve_user_notify_always(from_id, username, user_id, db, ws, now, fault) ==
    IF ~is_admin(from_id) THEN Outcome("not_authorized", db, ws)
    ELSE LET user == get_user(db, user_id, fault = "get_user")
         IN  IF user = <<>>
             THEN [Outcome("not_found", db, ws)
                       EXCEPT !.faulted = (fault = "get_user")]
             ELSE IF already_approved(user)
             THEN Outcome("already_approved", db, ws)
             ELSE LET upd == update_user_approval(db, user_id, TRUE, now,
                                                  fault = "update")
                  IN  IF ~upd.ret
                      THEN [Outcome("store_error", upd.db, ws)
                                EXCEPT !.setCalled = TRUE,
                                       !.faulted = (fault = "update")]
                      ELSE LET sh == add_partnercode(ws, str(user_id),
                                         user[1].name, user[1].phone,
                                         username, None, LedgerFault(fault))
                           IN  [Outcome("notify", upd.db, sh.ws)
                                    EXCEPT !.setCalled = TRUE, !.setOk = TRUE,
                                           !.ledgerCalled = TRUE,
                                           !.ledgerOk = sh.ret]

\* approve_user from its first line to the return of add_partnercode: no
\* await lies between these calls, so the event loop runs them as one step.
\* fault: the call that raises in this invocation ("get_user", "update":
\* sqlite3.Error caught by the store; "find", "append": the ledger call), or
\* "none". A call after the one that raises is never reached, so one fault
\* point covers every combination.
approve_user(from_id, username, user_id, db, ws, now, fault) ==
    IF ~is_admin(from_id) THEN Outcome("not_authorized", db, ws)
    ELSE LET user == get_user(db, user_id, fault = "get_user")
         IN  IF user = <<>>
             THEN [Outcome("not_found", db, ws)
                       EXCEPT !.faulted = (fault = "get_user")]
             ELSE IF already_approved(user)
             THEN Outcome("already_approved", db, ws)
             ELSE LET upd == update_user_approval(db, user_id, TRUE, now,
                                                  fault = "update")
                  IN  IF ~upd.ret
                      THEN [Outcome("store_error", upd.db, ws)
                                EXCEPT !.setCalled = TRUE,
                                       !.faulted = (fault = "update")]
                      ELSE LET sh == add_partnercode(ws, str(user_id),
                                         user[1].name, user[1].phone,
                                         username, None, LedgerFault(fault))
                           IN  [Outcome(IF sh.ret THEN "notify"
                                                  ELSE "sheets_error",
                                        upd.db, sh.ws)
                                    EXCEPT !.setCalled = TRUE, !.setOk = TRUE,
                                           !.ledgerCalled = TRUE,
                                           !.ledgerOk = sh.ret]

\* Mutant: a rejection removes the record.
reject_user_delete(from_id, user_id, db, ws, fault) ==
    IF from_id # get_admin_user_id THEN Outcome("not_authorized", db, ws)
    ELSE IF user_id \notin DOMAIN db \/ fault = "get_user"
    THEN [Outcome("not_found", db, ws) EXCEPT !.faulted = (fault = "get_user")]
    ELSE Outcome("notify", [i \in DOMAIN db \ {user_id} |-> db[i]], ws)

\* Mutant: a rejection withdraws the approval.
reject_user_unapprove(from_id, user_id, db, ws, fault) ==
    IF from_id # get_admin_user_id THEN Outcome("not_authorized", db, ws)
    ELSE IF user_id \notin DOMAIN db \/ fault = "get_user"
    THEN [Outcome("not_found", db, ws) EXCEPT !.faulted = (fault = "get_user")]
    ELSE Outcome("notify", [db EXCEPT ![user_id].approved = FALSE], ws)

\* reject_user up to its first notification.
reject_user(from_id, user_id, db, ws, fault) ==
    IF ~is_admin(from_id) THEN Outcome("not_authorized", db, ws)
    ELSE LET user == get_user(db, user_id, fault = "get_user")
         IN  IF user = <<>>
             THEN [Outcome("not_found", db, ws)
                       EXCEPT !.faulted = (fault = "get_user")]
             ELSE Outcome("notify", db, ws)

\* The faults an invocation can meet: none before the administrator check.
ApproveFaults(from_id) ==
    IF is_admin(from_id) THEN {"none", "get_user", "update", "find", "append"}
    ELSE {"none"}

RejectFaults(from_id) ==
    IF is_admin(from_id) THEN {"none", "get_user"} ELSE {"none"}

\* ------------------------------------------------------------------------
\* Menu (handlers/menu.py)
\* ------------------------------------------------------------------------
\* Config.get_referral_link: the base URL ("U"), "?ref=" and the code.
get_referral_link_url(partnercode) ==
    <<"U", "?", "r", "e", "f", "=">> \o partnercode

\* What a menu handler did before its first await: the value of the gate,
\* the answer, whether the ledger was read and with what result, the link.
MenuOutcome(gate, answer, ledgerCalled, balance, link) ==
    [gate |-> gate, answer |-> answer, ledgerCalled |-> ledgerCalled,
     balance |-> balance, link |-> link]

\* check_balance. fault: the call that raises ("get_user" in the store,
\* "find" or "row_values" in the ledger), or "none".
check_balance(user_id, db, ws, fault) ==
    IF ~is_user_approved(db, user_id, fault = "get_user")
    THEN MenuOutcome(FALSE, "approval_waiting", FALSE, 0, <<>>)
    ELSE MenuOutcome(TRUE, "balance_info", TRUE,
                     get_balance(ws, str(user_id), fault).balance, <<>>)

\* get_referral_link. fault: "get_user" in the store, "qr" when
\* generate_qr_code_bytes returns None, or "none".
get_referral_link(user_id, db, fault) ==
    IF ~is_user_approved(db, user_id, fault = "get_user")
    THEN MenuOutcome(FALSE, "approval_waiting", FALSE, 0, <<>>)
    ELSE IF fault = "qr" THEN MenuOutcome(TRUE, "error_qr", FALSE, 0, <<>>)
    ELSE MenuOutcome(TRUE, "referral_link", FALSE, 0,
                     get_referral_link_url(str(user_id)))

BalanceMenuFaults == {"none", "get_user", "find", "row_values"}

LinkMenuFaults == {"none", "get_user", "qr"}

\* ------------------------------------------------------------------------
\* State
\* ------------------------------------------------------------------------
VARIABLES
    users,      \* the users table
    sheet,      \* the worksheet
    clock,      \* the wall clock of the host, in local time
    fsm,        \* the registration state of each user (aiogram FSM)
    fsmData,    \* the phone stored in the FSM data of each user
    tasks,      \* the approve/reject invocations suspended at an await
    last,       \* the invocation that returned last, with what it did
    setCount,   \* per id: invocations whose update_user_approval(id, True) succeeded
    okCount,    \* per id: invocations that answered that the user is approved
    rejected,   \* per id: a rejection of the id has completed
    threads,    \* Ledger Client calls in progress, one per thread
    dbRet,      \* the last User Store call made directly, with its return
    sheetRet,   \* the last Ledger Client call made directly, with its return
    utcoffset,  \* local time minus UTC on the host
    journal,    \* of the store called directly: the ids in the order they
                \* were inserted, and when each became approved
    handlers    \* the bag of registration handlers suspended at an await

vars == <<users, sheet, clock, fsm, fsmData, tasks, last, setCount, okCount,
          rejected, threads, dbRet, sheetRet, utcoffset, journal, handlers>>

Tasks == 1..MaxTasks


NoInvocation ==
    [op |-> "none", pc |-> "idle", actor |-> 0, target |-> 0, result |-> "",
     preExists |-> FALSE, preApproved |-> FALSE, preRow |-> FALSE,
     preRejected |-> FALSE, faulted |-> FALSE,
     setCalled |-> FALSE, setOk |-> FALSE, ledgerCalled |-> FALSE,
     ledgerOk |-> FALSE, wrote |-> FALSE, notes |-> {},
     gate |-> FALSE, balance |-> 0, link |-> <<>>]

Threads == 1..MaxThreads

\* A thread running a Ledger Client call: op and args say which, pc where it
\* is; preRow: a row was keyed by the id when the call ran its find.
IdleThread ==
    [pc |-> "idle", op |-> "none", args |-> <<>>, row |-> <<>>,
     preRow |-> FALSE]

NoDbCall ==
    [op |-> "none", telegram_id |-> 0, args |-> [approved |-> FALSE],
     fault |-> FALSE, ret |-> FALSE, rows |-> <<>>, pre |-> <<>>,
     same |-> TRUE, frame |-> TRUE]

\* A Ledger Client call as its caller sees it: the arguments, whether a
\* remote call raised inside it (faulted), whether an exception left it
\* (raised), what it returned (ret, balance, value), whether a row was keyed
\* by the id before it (preRow), whether the sheet changed, and the row it
\* appended or read.
NoSheetCall ==
    [op |-> "none", args |-> <<>>, ret |-> FALSE, preRow |-> FALSE,
     faulted |-> FALSE, raised |-> FALSE, changed |-> FALSE, row |-> <<>>,
     balance |-> 0, value |-> <<>>]

NoJournal == [inserted |-> <<>>, approvedAt |-> [u \in UserIds |-> NULL]]

\* The state after init_database on a new file, before any update arrives.
StartState ==
    /\ users = <<>>
    /\ sheet = <<Header>>
    /\ clock = 0
    /\ fsm = [u \in UserIds |-> "none"]
    /\ fsmData = [u \in UserIds |-> <<>>]
    /\ tasks = [t \in Tasks |-> NoInvocation]
    /\ last = NoInvocation
    /\ setCount = [u \in UserIds |-> 0]
    /\ okCount = [u \in UserIds |-> 0]
    /\ rejected = [u \in UserIds |-> FALSE]
    /\ threads = [th \in Threads |-> IdleThread]
    /\ dbRet = NoDbCall
    /\ sheetRet = NoSheetCall
    /\ journal = NoJournal
    /\ handlers = EmptyBag

\* A host that keeps UTC.
Init == StartState /\ utcoffset = 0

\* ------------------------------------------------------------------------
\* Registration flow (handlers/start-old.py)
\* ------------------------------------------------------------------------
\* A registration handler as the dispatcher sees it: which handler, for
\* which user, the text of the message, and how it ends.
Handled(op, user, result, text) ==
    [op |-> op, user |-> user, result |-> result, text |-> text]

\* The handlers of this kind that are suspended.
Suspended(op) == {h \in BagToSet(handlers) : h.op = op}

\* The handler returns without a state change after its await.
Returns(handled) ==
    /\ last' = [NoInvocation EXCEPT !.op = handled.op, !.pc = "done",
                                    !.actor = handled.user,
                                    !.target = handled.user,
                                    !.result = handled.result]
    /\ UNCHANGED handlers

\* The handler is suspended at an await with a state change still to make.
Suspends(handled) ==
    /\ BagCardinality(handlers) < MaxHandlers
    /\ handlers' = handlers (+) SetToBag({handled})
    /\ UNCHANGED last

\* The suspended handler finishes.
Resumes(h) ==
    /\ last' = [NoInvocation EXCEPT !.op = h.op, !.pc = "done",
                                    !.actor = h.user, !.target = h.user,
                                    !.result = h.result]
    /\ handlers' = handlers (-) SetToBag({h})

\* /start runs to its first await: the administrator gets the admin menu and
\* a stored user a message, and the handler returns; anybody else is asked
\* for the contact, and the handler is suspended in message.answer before
\* state.set_state(Register.phone). CommandStart carries no state filter and
\* is registered first: the handler runs in every conversation state.
StartCommand ==
    \E u \in UserIds \cup {get_admin_user_id}, fault \in BOOLEAN :
        /\ IF is_admin(u) \/ get_user(users, u, fault) # <<>>
           THEN Returns(Handled("start_command", u,
                                IF is_admin(u) THEN "admin_menu" ELSE "stored",
                                <<>>))
           ELSE Suspends(Handled("start_command", u, "phone", <<>>))
        /\ UNCHANGED <<users, sheet, clock, fsm, fsmData, tasks, setCount,
                       okCount, rejected, threads, dbRet, sheetRet, utcoffset,
                       journal>>

\* start_command resumes: state.set_state(Register.phone).
StartSetState ==
    \E h \in Suspended("start_command") :
        /\ fsm' = [fsm EXCEPT ![h.user] = "phone"]
        /\ Resumes(h)
        /\ UNCHANGED <<users, sheet, clock, fsmData, tasks, setCount,
                       okCount, rejected, threads, dbRet, sheetRet, utcoffset,
                       journal>>

\* A contact message in Register.phone runs to its first await: without a
\* phone_number the handler asks again and returns; otherwise
\* state.update_data(phone=...), and the handler is suspended in
\* message.answer before state.set_state(Register.name).
ProcessContact ==
    \E u \in UserIds, phone_number \in Phones :
        /\ fsm[u] = "phone"
        /\ IF phone_number = <<>>
           THEN /\ Returns(Handled("process_contact", u, "no_phone_number",
                                   <<>>))
                /\ UNCHANGED fsmData
           ELSE /\ fsmData' = [fsmData EXCEPT ![u] = phone_number]
                /\ Suspends(Handled("process_contact", u, "name", <<>>))
        /\ UNCHANGED <<users, sheet, clock, fsm, tasks, setCount, okCount,
                       rejected, threads, dbRet, sheetRet, utcoffset,
                       journal>>

\* process_contact resumes: state.set_state(Register.name).
ContactSetState ==
    \E h \in Suspended("process_contact") :
        /\ fsm' = [fsm EXCEPT ![h.user] = "name"]
        /\ Resumes(h)
        /\ UNCHANGED <<users, sheet, clock, fsmData, tasks, setCount,
                       okCount, rejected, threads, dbRet, sheetRet, utcoffset,
                       journal>>

\* Any other message in Register.phone: the bot asks for the contact again.
InvalidContact ==
    \E u \in UserIds :
        /\ fsm[u] = "phone"
        /\ Returns(Handled("invalid_contact", u, "ask_again", <<>>))
        /\ UNCHANGED <<users, sheet, clock, fsm, fsmData, tasks, setCount,
                       okCount, rejected, threads, dbRet, sheetRet, utcoffset,
                       journal>>

\* Mutant: a name of one character passes.
NameAccepted_one_char(name) == ~(name = <<>>) /\ ~(Len(name) > 50)

\* The length checks of process_name on the stripped text.
NameAccepted(name) == ~(name = <<>> \/ Len(name) < 2) /\ ~(Len(name) > 50)

\* process_name on a message with this text (None: a message without text,
\* whose text.strip() raises: the handler catches it and changes nothing),
\* with phone the phone of the FSM data. clear: state.clear() was reached.
process_name(db, user_id, text, phone, now, fault) ==
    IF text = None \/ ~NameAccepted(strip(text))
    THEN [db |-> db, clear |-> FALSE, saved |-> FALSE]
    ELSE IF phone = <<>>
    THEN [db |-> db, clear |-> TRUE, saved |-> FALSE]
    ELSE LET sv == save_user(db, user_id, strip(text), phone, FALSE, now, fault)
         IN  [db |-> sv.db, clear |-> TRUE, saved |-> sv.ret]

\* A message in Register.name runs to its first await: a refused name is
\* answered and the handler returns; otherwise the handler reads the phone
\* of the FSM data, calls save_user when there is one, and is suspended in
\* its answers before state.clear().
ProcessName ==
    \E u \in UserIds, text \in Texts \cup {None}, fault \in BOOLEAN :
        /\ fsm[u] = "name"
        /\ LET out == process_name(users, u, text, fsmData[u],
                                    CURRENT_TIMESTAMP(clock, utcoffset), fault)
           IN  /\ users' = out.db
               /\ IF out.clear
                  THEN Suspends(Handled("process_name", u,
                                        IF out.saved THEN "saved"
                                        ELSE IF fsmData[u] = <<>>
                                        THEN "no_phone" ELSE "not_saved",
                                        text))
                  ELSE Returns(Handled("process_name", u,
                                       IF text = None THEN "raised"
                                       ELSE "invalid", text))
        /\ UNCHANGED <<sheet, clock, fsm, fsmData, tasks, setCount, okCount,
                       rejected, threads, dbRet, sheetRet, utcoffset,
                       journal>>

\* process_name resumes: state.clear() drops the state and the data.
NameClear ==
    \E h \in Suspended("process_name") :
        /\ fsm' = [fsm EXCEPT ![h.user] = "none"]
        /\ fsmData' = [fsmData EXCEPT ![h.user] = <<>>]
        /\ Resumes(h)
        /\ UNCHANGED <<users, sheet, clock, tasks, setCount, okCount,
                       rejected, threads, dbRet, sheetRet, utcoffset,
                       journal>>

NextRegister ==
    \/ StartCommand
    \/ StartSetState
    \/ ProcessContact
    \/ ContactSetState
    \/ InvalidContact
    \/ ProcessName
    \/ NameClear

\* The registration conversation alone. The dispatcher of main.py is built
\* without events isolation and polls with its defaults: every update is
\* handled in a task of its own, so the handlers of one user interleave at
\* their awaits.
SpecRegister == Init /\ [][NextRegister]_vars

\* The registration conversation as the admission workflow sees it: the
\* conversation state is read by no handler of handlers/admin.py, so a user
\* may answer the name prompt, with any captured phone, at any time.
RegisterUser ==
    \E u \in UserIds, text \in Texts \cup {None}, phone \in Phones,
       fault \in BOOLEAN :
        /\ users' = process_name(users, u, text, phone,
                                  CURRENT_TIMESTAMP(clock, utcoffset), fault).db
        /\ users' # users   \* a refused or failed attempt changes nothing
        /\ UNCHANGED <<sheet, clock, fsm, fsmData, tasks, last, setCount,
                       okCount, rejected, threads, dbRet, sheetRet, utcoffset,
                       journal, handlers>>

\* ------------------------------------------------------------------------
\* Approve and reject invocations
\* ------------------------------------------------------------------------
\* The slot a suspended invocation takes: the first free one.
Free(t) ==
    /\ tasks[t].pc = "idle"
    /\ \A q \in Tasks : q < t => tasks[q].pc # "idle"

Bump(count, u, on) == IF on THEN [count EXCEPT ![u] = @ + 1] ELSE count

\* The invocation after its synchronous part. The pre fields record the
\* state it started from: the record exists, is approved, a ledger row is
\* keyed by the id, a rejection of the id has completed.
Invocation(op, actor, target, out) ==
    [NoInvocation EXCEPT
        !.op = op, !.actor = actor, !.target = target,
        !.pc = IF out.stage = "notify" THEN "notify_user" ELSE "done",
        !.result = IF out.stage = "notify" THEN "" ELSE out.stage,
        !.preExists = target \in DOMAIN users,
        !.preApproved = target \in DOMAIN users /\ users[target].approved,
        !.preRow = find(sheet, str(target), 1) # 0,
        !.preRejected = rejected[target],
        !.faulted = out.faulted,
        !.setCalled = out.setCalled, !.setOk = out.setOk,
        !.ledgerCalled = out.ledgerCalled, !.ledgerOk = out.ledgerOk,
        !.wrote = out.db # users]

\* The handler runs to its first await: it has returned (last) or is
\* suspended in a free slot.
Dispatch(inv) ==
    IF inv.pc = "done"
    THEN /\ last' = inv
         /\ UNCHANGED tasks
    ELSE /\ \E t \in Tasks : Free(t) /\ tasks' = [tasks EXCEPT ![t] = inv]
         /\ UNCHANGED last

\* An "approve_<id>" callback arrives and approve_user runs to its first await.
ApproveUser ==
    \E actor \in Actors, target \in UserIds :
      \E fault \in ApproveFaults(actor) :
        LET out == approve_user(actor, from_user_username(actor), target,
                                users, sheet, datetime_now(clock, utcoffset),
                                fault)
        IN  /\ users' = out.db
            /\ sheet' = out.ws
            /\ Dispatch(Invocation("approve", actor, target, out))
            /\ setCount' = Bump(setCount, target, out.setOk)
            /\ UNCHANGED <<clock, fsm, fsmData, okCount, rejected, threads,
                           dbRet, sheetRet, utcoffset,
                       journal, handlers>>

\* bot.send_message to the approved user (a failure is caught and logged).
ApproveNotifyUser ==
    \E t \in Tasks :
        /\ tasks[t].op = "approve" /\ tasks[t].pc = "notify_user"
        /\ tasks' = [tasks EXCEPT ![t].pc = "notify_group",
                                  ![t].notes = @ \cup {"user_approved"}]
        /\ UNCHANGED <<users, sheet, clock, fsm, fsmData, last, setCount,
                       okCount, rejected, threads, dbRet, sheetRet, utcoffset,
                       journal, handlers>>

\* bot.send_message to the admin group.
ApproveNotifyGroup ==
    \E t \in Tasks :
        /\ tasks[t].op = "approve" /\ tasks[t].pc = "notify_group"
        /\ tasks' = [tasks EXCEPT ![t].pc = "answer",
                                  ![t].notes = @ \cup {"group_approved"}]
        /\ UNCHANGED <<users, sheet, clock, fsm, fsmData, last, setCount,
                       okCount, rejected, threads, dbRet, sheetRet, utcoffset,
                       journal, handlers>>

\* callback.answer("approved") and the edit of the panel message.
ApproveAnswer ==
    \E t \in Tasks :
        /\ tasks[t].op = "approve" /\ tasks[t].pc = "answer"
        /\ last' = [tasks[t] EXCEPT !.pc = "done", !.result = "approved"]
        /\ tasks' = [tasks EXCEPT ![t] = NoInvocation]
        /\ okCount' = Bump(okCount, tasks[t].target, TRUE)
        /\ UNCHANGED <<users, sheet, clock, fsm, fsmData, setCount, rejected,
                       threads, dbRet, sheetRet, utcoffset,
                       journal, handlers>>

\* A "reject_<id>" callback arrives and reject_user runs to its first await.
RejectUser ==
    \E actor \in Actors, target \in UserIds :
      \E fault \in RejectFaults(actor) :
        LET out == reject_user(actor, target, users, sheet, fault)
        IN  /\ users' = out.db
            /\ sheet' = out.ws
            /\ Dispatch(Invocation("reject", actor, target, out))
            /\ UNCHANGED <<clock, fsm, fsmData, setCount, okCount, rejected,
                           threads, dbRet, sheetRet, utcoffset,
                       journal, handlers>>

RejectNotifyUser ==
    \E t \in Tasks :
        /\ tasks[t].op = "reject" /\ tasks[t].pc = "notify_user"
        /\ tasks' = [tasks EXCEPT ![t].pc = "notify_group",
                                  ![t].notes = @ \cup {"user_rejected"}]
        /\ UNCHANGED <<users, sheet, clock, fsm, fsmData, last, setCount,
                       okCount, rejected, threads, dbRet, sheetRet, utcoffset,
                       journal, handlers>>

RejectNotifyGroup ==
    \E t \in Tasks :
        /\ tasks[t].op = "reject" /\ tasks[t].pc = "notify_group"
        /\ tasks' = [tasks EXCEPT ![t].pc = "answer",
                                  ![t].notes = @ \cup {"group_rejected"}]
        /\ UNCHANGED <<users, sheet, clock, fsm, fsmData, last, setCount,
                       okCount, rejected, threads, dbRet, sheetRet, utcoffset,
                       journal, handlers>>

RejectAnswer ==
    \E t \in Tasks :
        /\ tasks[t].op = "reject" /\ tasks[t].pc = "answer"
        /\ last' = [tasks[t] EXCEPT !.pc = "done", !.result = "rejected"]
        /\ tasks' = [tasks EXCEPT ![t] = NoInvocation]
        /\ rejected' = [rejected EXCEPT ![tasks[t].target] = TRUE]
        /\ UNCHANGED <<users, sheet, clock, fsm, fsmData, setCount, okCount,
                       threads, dbRet, sheetRet, utcoffset,
                       journal, handlers>>

Next ==
    \/ RegisterUser
    \/ ApproveUser
    \/ ApproveNotifyUser
    \/ ApproveNotifyGroup
    \/ ApproveAnswer
    \/ RejectUser
    \/ RejectNotifyUser
    \/ RejectNotifyGroup
    \/ RejectAnswer

Spec == Init /\ [][Next]_vars

\* ------------------------------------------------------------------------
\* Properties of the admission workflow (specification Spec)
\* ------------------------------------------------------------------------
ByAdmin(inv) == inv.actor = get_admin_user_id

InFlight == {tasks[t] : t \in {q \in Tasks : tasks[q].pc # "idle"}}

\* C1: an approve or reject invocation by anybody but the administrator ends
\* with the not-authorized answer, changes no user record, calls neither
\* set_approval nor register_partner and emits no notification; it never
\* reaches an await of the notification part.
C1_UnauthorizedRejected ==
    /\ (last.op \in {"approve", "reject"} /\ ~ByAdmin(last))
          => /\ last.result = "not_authorized"
             /\ ~last.wrote /\ ~last.setCalled /\ ~last.ledgerCalled
             /\ last.notes = {}
    /\ \A inv \in InFlight : ByAdmin(inv)

C1_Witness ==
    /\ last.op = "approve" /\ ~ByAdmin(last)
    /\ last.preExists /\ ~last.preApproved
    /\ last.target \in DOMAIN users /\ ~users[last.target].approved

\* C2: an approve by the administrator for an id without a record ends with
\* not-found, and for a record read as approved with already-approved; in
\* both cases the store is unchanged and register_partner is not called.
\* (When the read of the record itself faults, get_user returns None and the
\* answer is not-found.)
C2_ApproveGuards ==
    (last.op = "approve" /\ ByAdmin(last))
        => /\ ~last.preExists => last.result = "not_found"
           /\ (last.preApproved /\ ~last.faulted)
                 => last.result = "already_approved"
           /\ last.result \in {"not_found", "already_approved"}
                 => ~last.wrote /\ ~last.setCalled /\ ~last.ledgerCalled

C2_Witness ==
    /\ last.op = "approve" /\ ByAdmin(last)
    /\ last.preApproved /\ last.result = "already_approved"
    /\ users[last.target].approved

\* C3: for each id at most one approve invocation has its
\* set_approval(id, true) succeed and at most one answers that the user is
\* approved; every other administrator approve for the stored record whose
\* store calls do not fault ends with already-approved.
C3_AtMostOneApproval ==
    /\ \A u \in UserIds : setCount[u] <= 1 /\ okCount[u] <= 1
    /\ (last.op = "approve" /\ ByAdmin(last) /\ last.preExists
            /\ ~last.faulted /\ ~last.setOk)
          => last.result = "already_approved"

\* A second approve for the id returns while the first is still suspended at
\* one of its notifications.
C3_Witness ==
    \E t \in Tasks :
        /\ tasks[t].op = "approve" /\ tasks[t].pc # "idle"
        /\ last.op = "approve" /\ ByAdmin(last)
        /\ last.target = tasks[t].target
        /\ last.result = "already_approved"
        /\ setCount[last.target] = 1

\* C4: register_partner is called only in an invocation whose
\* set_approval(id, true) returned success, so a ledger row keyed by a user
\* id exists only for a record that is approved; when set_approval fails the
\* invocation answers with the store-update error, does not call
\* register_partner and emits no notification.
C4_LedgerAfterStore ==
    /\ \A inv \in InFlight \cup {last} : inv.ledgerCalled => inv.setOk
    /\ \A u \in UserIds :
          find(sheet, str(u), 1) # 0 => u \in DOMAIN users /\ users[u].approved
    /\ (last.op = "approve" /\ last.setCalled /\ ~last.setOk)
          => /\ last.result = "store_error"
             /\ ~last.ledgerCalled
             /\ last.notes = {}

C4_Witness ==
    /\ last.op = "approve" /\ last.setCalled /\ ~last.setOk
    /\ last.result = "store_error"
    /\ ~users[last.target].approved

\* C5: when set_approval succeeded and register_partner failed, the answer
\* is none of success, not-found, already-approved, not-authorized and the
\* store-update error; the record is approved and no ledger row is keyed by
\* the id.
C5_InconsistentReported ==
    (last.op = "approve" /\ last.setOk /\ last.ledgerCalled /\ ~last.ledgerOk)
        => /\ last.result = "sheets_error"
           /\ last.result \notin {"approved", "not_found", "already_approved",
                                  "not_authorized", "store_error"}
           /\ last.notes = {}
           /\ last.target \in DOMAIN users /\ users[last.target].approved
           /\ find(sheet, str(last.target), 1) = 0

C5_Witness ==
    /\ last.op = "approve" /\ last.setOk /\ last.ledgerCalled
    /\ ~last.ledgerOk /\ last.result = "sheets_error"

\* C6 (as claimed): an administrator approve for an id left inconsistent
\* (record approved, no ledger row) calls register_partner again.
C6_RetryRegisters ==
    (last.op = "approve" /\ ByAdmin(last) /\ last.preApproved /\ ~last.preRow
        /\ ~last.faulted)
        => last.ledgerCalled

\* C7: a reject by the administrator changes no user record and calls
\* neither set_approval nor the ledger; for a stored record it ends with the
\* rejection answer after both notifications, whether or not the id was
\* rejected before; for an absent id it ends with not-found and no
\* notification. A rejection only ever completes for a stored record, and an
\* approve of a pending record that was rejected before goes through
\* set_approval and register_partner and answers approved when the ledger
\* call succeeds.
C7_RejectIsNotificationOnly ==
    /\ (last.op = "reject" /\ ByAdmin(last))
          => /\ ~last.wrote /\ ~last.setCalled /\ ~last.ledgerCalled
             /\ ~last.preExists
                   => last.result = "not_found" /\ last.notes = {}
             /\ (last.preExists /\ ~last.faulted)
                   => /\ last.result = "rejected"
                      /\ last.notes = {"user_rejected", "group_rejected"}
    /\ \A inv \in InFlight : inv.op = "reject" => ~inv.wrote
    /\ \A u \in UserIds : rejected[u] => u \in DOMAIN users
    /\ (last.op = "approve" /\ ByAdmin(last) /\ last.preRejected
            /\ last.preExists /\ ~last.preApproved /\ ~last.faulted)
          => /\ last.setOk /\ last.ledgerCalled
             /\ last.ledgerOk => last.result = "approved"

\* A user rejected and then approved without registering again.
C7_Witness ==
    /\ last.op = "approve" /\ ByAdmin(last)
    /\ last.preRejected /\ ~last.preApproved
    /\ last.result = "approved"
    /\ users[last.target].approved

\* C25 (as claimed): the ledger row created for a user has as its username
\* column "@" followed by the platform username of that user ("-" when the
\* account has none), whoever approved.
C25_RowCarriesUsersUsername ==
    \A u \in UserIds :
        LET r == find(sheet, str(u), 1)
        IN  r # 0 => sheet[r][4] = IF from_user_username(u) = None
                                   THEN <<"-">>
                                   ELSE <<"@">> \o from_user_username(u)

\* C26: an approve whose register_partner call succeeded leaves a ledger row
\* keyed by the decimal form of the id, with the name and the phone of the
\* stored record in columns 2 and 3 and "-" as referral source.
C26_RowFromStoredRecord ==
    \A inv \in InFlight \cup {last} :
        (inv.op = "approve" /\ inv.ledgerOk)
            => LET key == IF inv.target = 7 THEN <<"7">> ELSE <<"4", "2">>
                   r == find(sheet, key, 1)
               IN  /\ r # 0
                   /\ Len(sheet[r]) = 5
                   /\ sheet[r][1] = key
                   /\ sheet[r][2] = users[inv.target].name
                   /\ sheet[r][3] = users[inv.target].phone
                   /\ sheet[r][5] = <<"-">>

\* The approve of user 42 has answered and its row is in the ledger.
C26_Witness ==
    /\ last.op = "approve" /\ last.result = "approved" /\ last.target = 42
    /\ last.ledgerOk /\ ~last.preRow
    /\ \E r \in 2..Len(sheet) :
           /\ sheet[r][1] = <<"4", "2">>
           /\ sheet[r][2] = <<"A", "l">>
           /\ sheet[r][3] = <<"+", "1">>

\* ------------------------------------------------------------------------
\* The menu of a user beside the admission workflow (specification SpecMenu)
\* ------------------------------------------------------------------------
\* A menu invocation as it returned: preExists and preApproved are read from
\* the table, gate is what is_user_approved returned to the handler.
MenuInvocation(op, user_id, fault, out) ==
    [NoInvocation EXCEPT
        !.op = op, !.actor = user_id, !.target = user_id, !.pc = "done",
        !.result = out.answer,
        !.preExists = user_id \in DOMAIN users,
        !.preApproved = user_id \in DOMAIN users /\ users[user_id].approved,
        !.preRow = find(sheet, str(user_id), 1) # 0,
        !.faulted = (fault = "get_user"),
        !.ledgerCalled = out.ledgerCalled,
        !.gate = out.gate, !.balance = out.balance, !.link = out.link]

\* The balance button.
CheckBalance ==
    \E u \in UserIds, fault \in BalanceMenuFaults :
        /\ last' = MenuInvocation("check_balance", u, fault,
                                  check_balance(u, users, sheet, fault))
        /\ UNCHANGED <<users, sheet, clock, fsm, fsmData, tasks, setCount,
                       okCount, rejected, threads, dbRet, sheetRet, utcoffset,
                       journal, handlers>>

\* The referral link button.
GetReferralLink ==
    \E u \in UserIds, fault \in LinkMenuFaults :
        /\ last' = MenuInvocation("get_referral_link", u, fault,
                                  get_referral_link(u, users, fault))
        /\ UNCHANGED <<users, sheet, clock, fsm, fsmData, tasks, setCount,
                       okCount, rejected, threads, dbRet, sheetRet, utcoffset,
                       journal, handlers>>

NextMenu ==
    \/ RegisterUser
    \/ ApproveUser
    \/ ApproveNotifyUser
    \/ ApproveNotifyGroup
    \/ ApproveAnswer
    \/ CheckBalance
    \/ GetReferralLink

SpecMenu == Init /\ [][NextMenu]_vars

\* C30: a balance or referral-link request reads the ledger, or produces the
\* link, only in an invocation whose is_user_approved returned true; the
\* gate is true only for a stored record with approved true, and for every
\* such record when the read of the store does not fault; a request of an
\* unregistered or pending user reads no ledger, produces no link and gets
\* the waiting message.
C30_AdmissionGate ==
    (last.op \in {"check_balance", "get_referral_link"})
        => /\ (last.ledgerCalled \/ last.link # <<>>) => last.gate
           /\ last.gate => (last.preExists /\ last.preApproved)
           /\ (last.preExists /\ last.preApproved /\ ~last.faulted)
                 => last.gate
           /\ ~(last.preExists /\ last.preApproved)
                 => /\ ~last.ledgerCalled
                    /\ last.link = <<>>
                    /\ last.result = "approval_waiting"
           /\ (last.op = "check_balance" /\ last.gate) => last.ledgerCalled

\* A pending user asked for the balance while another user is approved and
\* has a ledger row.
C30_Witness ==
    /\ last.op = "check_balance"
    /\ last.preExists /\ ~last.preApproved
    /\ last.result = "approval_waiting" /\ ~last.ledgerCalled
    /\ \E u \in UserIds :
           /\ u # last.actor /\ u \in DOMAIN users /\ users[u].approved
           /\ find(sheet, str(u), 1) # 0

\* ------------------------------------------------------------------------
\* The User Store called directly (specification SpecStore)
\* ------------------------------------------------------------------------
\* The (name, phone) pairs the store is given: it validates neither.
StoreContacts ==
    { << <<"A", "l">>, <<"+", "1">> >>, << <<"B", "o">>, <<"+", "2">> >> }

\* Time zones of the host: behind UTC, UTC, ahead of UTC.
UtcOffsets == {-1, 0, 1}

\* A new database on a host in any time zone.
InitStore == StartState /\ utcoffset \in UtcOffsets

\* The stored row of an id: <<>> when there is none.
Row(db, telegram_id) ==
    IF telegram_id \in DOMAIN db THEN <<db[telegram_id]>> ELSE <<>>

\* A call as its caller sees it: the arguments, whether the storage layer
\* faulted, the boolean returned (ret), the row or rows returned (rows), the
\* row of the id before the call (pre), whether the table is as before the
\* call (same) and whether the rows of the other ids are (frame).
DbCall(op, telegram_id, args, fault, ret, rows, after) ==
    [op |-> op, telegram_id |-> telegram_id, args |-> args, fault |-> fault,
     ret |-> ret, rows |-> rows,
     pre |-> Row(users, telegram_id),
     same |-> after = users,
     frame |-> \A id \in (DOMAIN users \cup DOMAIN after) \ {telegram_id} :
                   Row(users, id) = Row(after, id)]

NoArgs == [approved |-> FALSE]

Tick ==
    /\ clock < MaxClock
    /\ clock' = clock + 1
    /\ UNCHANGED <<users, sheet, fsm, fsmData, tasks, last, setCount, okCount,
                   rejected, threads, dbRet, sheetRet, utcoffset, journal, handlers>>

SaveUser ==
    \E telegram_id \in UserIds, contact \in StoreContacts,
       approved \in BOOLEAN, fault \in BOOLEAN :
        LET name == contact[1]
            phone == contact[2]
            out == save_user(users, telegram_id, name, phone, approved,
                             CURRENT_TIMESTAMP(clock, utcoffset), fault)
        IN  /\ users' = out.db
            /\ dbRet' = DbCall("save_user", telegram_id,
                               [name |-> name, phone |-> phone,
                                approved |-> approved],
                               fault, out.ret, <<>>, out.db)
            /\ journal' =
                 IF out.ret
                 THEN [inserted |-> Append(journal.inserted, telegram_id),
                       approvedAt |-> [journal.approvedAt EXCEPT
                           ![telegram_id] = IF approved THEN clock ELSE NULL]]
                 ELSE journal
            /\ UNCHANGED <<sheet, clock, fsm, fsmData, tasks, last, setCount,
                           okCount, rejected, threads, sheetRet, utcoffset, handlers>>

GetUser ==
    \E telegram_id \in UserIds, fault \in BOOLEAN :
        /\ dbRet' = DbCall("get_user", telegram_id, NoArgs, fault, TRUE,
                           get_user(users, telegram_id, fault), users)
        /\ UNCHANGED <<users, sheet, clock, fsm, fsmData, tasks, last,
                       setCount, okCount, rejected, threads, sheetRet,
                       utcoffset, journal, handlers>>

UpdateUserApproval ==
    \E telegram_id \in UserIds, approved \in BOOLEAN, fault \in BOOLEAN :
        LET out == update_user_approval(users, telegram_id, approved,
                                        datetime_now(clock, utcoffset), fault)
            was == telegram_id \in DOMAIN users /\ users[telegram_id].approved
        IN  /\ users' = out.db
            /\ dbRet' = DbCall("update_user_approval", telegram_id,
                               [approved |-> approved], fault, out.ret, <<>>,
                               out.db)
            /\ journal' =
                 IF out.ret
                 THEN [journal EXCEPT !.approvedAt[telegram_id] =
                          IF ~approved THEN NULL
                          ELSE IF was THEN @ ELSE clock]
                 ELSE journal
            /\ UNCHANGED <<sheet, clock, fsm, fsmData, tasks, last, setCount,
                           okCount, rejected, threads, sheetRet, utcoffset, handlers>>

GetPendingUsers ==
    \E fault \in BOOLEAN :
      \E rows \in get_pending_users(users, fault) :
        /\ dbRet' = DbCall("get_pending_users", 0, NoArgs, fault, TRUE, rows,
                           users)
        /\ UNCHANGED <<users, sheet, clock, fsm, fsmData, tasks, last,
                       setCount, okCount, rejected, threads, sheetRet,
                       utcoffset, journal, handlers>>

GetApprovedUsers ==
    \E fault \in BOOLEAN :
      \E rows \in get_approved_users(users, fault) :
        /\ dbRet' = DbCall("get_approved_users", 0, NoArgs, fault, TRUE, rows,
                           users)
        /\ UNCHANGED <<users, sheet, clock, fsm, fsmData, tasks, last,
                       setCount, okCount, rejected, threads, sheetRet,
                       utcoffset, journal, handlers>>

DeleteUser ==
    \E telegram_id \in UserIds, fault \in BOOLEAN :
        LET out == delete_user(users, telegram_id, fault)
        IN  /\ users' = out.db
            /\ dbRet' = DbCall("delete_user", telegram_id, NoArgs, fault,
                               out.ret, <<>>, out.db)
            /\ journal' =
                 IF out.ret
                 THEN [inserted |-> SelectSeq(journal.inserted,
                                        LAMBDA id : id # telegram_id),
                       approvedAt |-> [journal.approvedAt EXCEPT
                                          ![telegram_id] = NULL]]
                 ELSE journal
            /\ UNCHANGED <<sheet, clock, fsm, fsmData, tasks, last, setCount,
                           okCount, rejected, threads, sheetRet, utcoffset, handlers>>

NextStore ==
    \/ Tick
    \/ SaveUser
    \/ GetUser
    \/ UpdateUserApproval
    \/ GetPendingUsers
    \/ GetApprovedUsers
    \/ DeleteUser

SpecStore == InitStore /\ [][NextStore]_vars

\* C10 (as claimed): in every record approved_at is non-null exactly when
\* approved is true.
C10_ApprovedAtIffApproved ==
    \A id \in DOMAIN users :
        (users[id].approved_at # NULL) <=> users[id].approved

\* C11: save_user(id, name, phone) with approved false, for an id that has no
\* row, when the storage layer does not fault, returns True, and get_user(id)
\* then returns the row with that id, name and phone, approved false and
\* approved_at NULL.
C11_CreateThenFind ==
    (dbRet.op = "save_user" /\ dbRet.pre = <<>> /\ ~dbRet.fault
        /\ ~dbRet.args.approved)
        => /\ dbRet.ret
           /\ LET user == get_user(users, dbRet.telegram_id, FALSE)
              IN  /\ user # <<>>
                  /\ user[1].telegram_id = dbRet.telegram_id
                  /\ user[1].name = dbRet.args.name
                  /\ user[1].phone = dbRet.args.phone
                  /\ user[1].approved = FALSE
                  /\ user[1].approved_at = NULL

\* A row was created beside the row of another id.
C11_Witness ==
    /\ dbRet.op = "save_user" /\ dbRet.pre = <<>> /\ dbRet.ret
    /\ ~dbRet.args.approved
    /\ dbRet.telegram_id \in DOMAIN users
    /\ Cardinality(DOMAIN users) = 2

\* C12: save_user for an id that has a row returns False and leaves the
\* table as it was: name, phone, approved, created_at and approved_at of the
\* row keep their values whatever the call carries.
C12_DuplicateRejected ==
    (dbRet.op = "save_user" /\ dbRet.pre # <<>>)
        => /\ ~dbRet.ret
           /\ dbRet.same
           /\ Row(users, dbRet.telegram_id) = dbRet.pre

\* The second call carried another name, phone and approved value, later.
C12_Witness ==
    /\ dbRet.op = "save_user" /\ dbRet.pre # <<>> /\ ~dbRet.fault
    /\ dbRet.pre[1].name # dbRet.args.name
    /\ dbRet.pre[1].phone # dbRet.args.phone
    /\ dbRet.pre[1].approved # dbRet.args.approved
    /\ dbRet.pre[1].created_at # CURRENT_TIMESTAMP(clock, utcoffset)
    /\ ~dbRet.ret

\* C13 (as claimed): after update_user_approval(id, True) returns True the
\* row is approved and its approved_at is non-null and not before its
\* created_at.
C13_ApprovedAtNotBeforeCreated ==
    (dbRet.op = "update_user_approval" /\ dbRet.args.approved /\ dbRet.ret)
        => LET user == get_user(users, dbRet.telegram_id, FALSE)
           IN  /\ user # <<>>
               /\ user[1].approved
               /\ user[1].approved_at # NULL
               /\ user[1].approved_at >= user[1].created_at

\* C14 (as claimed): once a row is approved with approved_at assigned, no
\* call that leaves it approved changes approved_at; the call that moves
\* approved from false to true assigns it.
C14_ApprovedAtSetOnce ==
    /\ (dbRet.op = "update_user_approval" /\ dbRet.ret /\ dbRet.args.approved)
          => users[dbRet.telegram_id].approved_at # NULL
    /\ (dbRet.op \in {"save_user", "update_user_approval", "delete_user"}
            /\ dbRet.pre # <<>> /\ dbRet.pre[1].approved
            /\ dbRet.pre[1].approved_at # NULL
            /\ dbRet.telegram_id \in DOMAIN users
            /\ users[dbRet.telegram_id].approved)
          => users[dbRet.telegram_id].approved_at = dbRet.pre[1].approved_at

\* C15: update_user_approval(id, False) on a stored row, approved or not,
\* when the storage layer does not fault, returns True and leaves the row with
\* approved false and approved_at NULL; name, phone and created_at of the row
\* and every other row are unchanged.
C15_Unapprove ==
    (dbRet.op = "update_user_approval" /\ ~dbRet.args.approved
        /\ dbRet.pre # <<>> /\ ~dbRet.fault)
        => /\ dbRet.ret
           /\ Row(users, dbRet.telegram_id) =
                  <<[dbRet.pre[1] EXCEPT !.approved = FALSE,
                                         !.approved_at = NULL]>>
           /\ dbRet.frame

\* An approved row with its approved_at assigned was set back.
C15_Witness ==
    /\ dbRet.op = "update_user_approval" /\ ~dbRet.args.approved
    /\ dbRet.pre # <<>> /\ dbRet.pre[1].approved
    /\ dbRet.pre[1].approved_at # NULL
    /\ dbRet.ret
    /\ ~users[dbRet.telegram_id].approved
    /\ Cardinality(DOMAIN users) = 2

\* C16: update_user_approval for an id without a row returns False, creates
\* no row and leaves every row as it was.
C16_UpdateMissing ==
    (dbRet.op = "update_user_approval" /\ dbRet.pre = <<>>)
        => /\ ~dbRet.ret
           /\ dbRet.telegram_id \notin DOMAIN users
           /\ dbRet.same

\* The call did not fault and another id has a row.
C16_Witness ==
    /\ dbRet.op = "update_user_approval" /\ dbRet.pre = <<>>
    /\ ~dbRet.fault /\ dbRet.args.approved
    /\ ~dbRet.ret
    /\ users # <<>>

\* The ids of the rows a list query returned, in their order.
Ids(rows) == [i \in 1..Len(rows) |-> rows[i].telegram_id]

\* C17 (as claimed): get_pending_users returns exactly the rows that are not
\* approved, in the order in which they were inserted, whatever the ids and
\* the times of the insertions.
C17_PendingInInsertionOrder ==
    (dbRet.op = "get_pending_users" /\ ~dbRet.fault)
        => Ids(dbRet.rows) =
              SelectSeq(journal.inserted, LAMBDA id : ~users[id].approved)

\* C18 (as claimed): get_approved_users returns exactly the approved rows,
\* by ascending approved_at, which is the order in which the users became
\* approved.
C18_ApprovedInApprovalOrder ==
    (dbRet.op = "get_approved_users" /\ ~dbRet.fault)
        => LET ids == Ids(dbRet.rows)
           IN  /\ {ids[i] : i \in 1..Len(ids)} =
                      {id \in DOMAIN users : users[id].approved}
               /\ Len(ids) = Cardinality({id \in DOMAIN users :
                                             users[id].approved})
               /\ \A i, j \in 1..Len(ids) :
                      i < j => /\ users[ids[i]].approved_at
                                     <= users[ids[j]].approved_at
                               /\ journal.approvedAt[ids[i]]
                                     <= journal.approvedAt[ids[j]]

\* C19: delete_user of a stored id, when the storage layer does not fault,
\* returns True, get_user(id) then returns None and every other row is
\* unchanged; delete_user of an id without a row returns False and leaves
\* the table as it was.
C19_Delete ==
    /\ (dbRet.op = "delete_user" /\ dbRet.pre # <<>> /\ ~dbRet.fault)
          => /\ dbRet.ret
             /\ get_user(users, dbRet.telegram_id, FALSE) = <<>>
             /\ dbRet.frame
    /\ (dbRet.op = "delete_user" /\ dbRet.pre = <<>>)
          => ~dbRet.ret /\ dbRet.same

\* A row was deleted and the row of another id is still stored.
C19_Witness ==
    /\ dbRet.op = "delete_user" /\ dbRet.pre # <<>> /\ dbRet.ret
    /\ dbRet.telegram_id \notin DOMAIN users
    /\ users # <<>>

\* C20: a call in which the storage layer faults returns the negative value
\* of its operation (False for save_user, update_user_approval and
\* delete_user, None for get_user, the empty list for get_pending_users and
\* get_approved_users) and leaves the table as it was.
C20_FaultsAreNegative ==
    (dbRet.op # "none" /\ dbRet.fault)
        => /\ dbRet.same
           /\ dbRet.op \in {"save_user", "update_user_approval", "delete_user"}
                 => ~dbRet.ret
           /\ dbRet.op \in {"get_user", "get_pending_users",
                             "get_approved_users"}
                 => dbRet.rows = <<>>

\* delete_user of a stored row faulted and the row is still there.
C20_Witness ==
    /\ dbRet.op = "delete_user" /\ dbRet.fault
    /\ dbRet.pre # <<>>
    /\ ~dbRet.ret
    /\ Row(users, dbRet.telegram_id) = dbRet.pre

\* ------------------------------------------------------------------------
\* The Ledger Client called directly (specification SpecLedger)
\* ------------------------------------------------------------------------
\* Arguments of add_partnercode: (partnercode, name, contact, username,
\* referral_source).
LedgerArgs ==
    { <<str(7), <<"A", "l">>, <<"+", "1">>, None, None>>,
      <<str(7), <<" ">>, None, <<"a", "d", "m">>, <<"5">> >>,
      <<str(42), <<"B", "o">>, <<"+", "2">>, <<"@", "b", "o", "s", "s">>, None>>,
      <<str(42), <<" ", "B", "o", " ">>, <<>>, <<" ", "b", "o", "b", " ">>,
        <<" ">> >> }

Appending == {th \in Threads : threads[th].pc = "append"}

SheetCall(ret, preRow, faulted, changed, row) ==
    [NoSheetCall EXCEPT !.op = "add_partnercode", !.ret = ret,
                        !.preRow = preRow, !.faulted = faulted,
                        !.changed = changed, !.row = row]

\* A thread (the event loop calling add_partnercode, or a worker of
\* asyncio.to_thread running add_partnercode_async) enters
\* _add_partnercode_sync and runs it to the result of find. No lock is held
\* while it goes on to append_row.
AddPartnercodeFind ==
    \E th \in Threads, a \in LedgerArgs, fault \in BOOLEAN :
        /\ threads[th].pc = "idle"
        /\ Len(sheet) + Cardinality(Appending) < 1 + MaxRows
        /\ LET cell == find_partnercode(sheet, a[1], fault)
               row == row_data(a[1], a[2], a[3], a[4], a[5])
               preRow == find(sheet, a[1], 1) # 0
           IN  IF cell = "missing"
               THEN /\ threads' = [threads EXCEPT
                                      ![th] = [IdleThread EXCEPT
                                                  !.pc = "append",
                                                  !.op = "add_partnercode",
                                                  !.args = a, !.row = row,
                                                  !.preRow = preRow]]
                    /\ UNCHANGED sheetRet
               ELSE /\ sheetRet' = SheetCall(cell = "exists", preRow, fault,
                                             FALSE, row)
                    /\ UNCHANGED threads
        /\ UNCHANGED <<users, sheet, clock, fsm, fsmData, tasks, last,
                       setCount, okCount, rejected, dbRet, utcoffset, journal, handlers>>

\* The thread's append_row and return.
AddPartnercodeAppend ==
    \E th \in Threads, fault \in BOOLEAN :
        /\ threads[th].pc = "append"
        /\ LET out == append_partner(sheet, threads[th].row, fault)
           IN  /\ sheet' = out.ws
               /\ sheetRet' = SheetCall(out.ret, threads[th].preRow, fault,
                                        out.ws # sheet, threads[th].row)
        /\ threads' = [threads EXCEPT ![th] = IdleThread]
        /\ UNCHANGED <<users, clock, fsm, fsmData, tasks, last, setCount,
                       okCount, rejected, dbRet, utcoffset, journal, handlers>>

NextLedger ==
    \/ AddPartnercodeFind
    \/ AddPartnercodeAppend

SpecLedger == Init /\ [][NextLedger]_vars

\* C8 (as claimed): a partner id is the column-1 key of at most one row.
C8_KeyAtMostOnce ==
    \A r1, r2 \in 1..Len(sheet) : sheet[r1][1] = sheet[r2][1] => r1 = r2

\* C9: a call of register_partner for an id that already has a row, when the
\* ledger raises nothing, returns success in its find step: it appends
\* nothing and changes no cell, whatever the name, contact, username and
\* referral source it carries.
C9_RegisterIdempotent ==
    (sheetRet.op = "add_partnercode" /\ sheetRet.preRow /\ ~sheetRet.faulted)
        => /\ sheetRet.ret
           /\ ~sheetRet.changed

\* The call carried other values than the row already stored for the id.
C9_Witness ==
    /\ sheetRet.op = "add_partnercode" /\ sheetRet.preRow
    /\ ~sheetRet.faulted /\ sheetRet.ret
    /\ find(sheet, sheetRet.row[1], 1) # 0
    /\ sheet[find(sheet, sheetRet.row[1], 1)] # sheetRet.row
    /\ Cardinality({r \in 1..Len(sheet) : sheet[r][1] = sheetRet.row[1]}) = 1

\* ------------------------------------------------------------------------
\* Ledger Client calls and a remote that may not answer (SpecRemote)
\* ------------------------------------------------------------------------
\* The calls that go to the remote ledger, each with its arguments.
RemoteCalls ==
    {<<"add_partnercode", a>> : a \in LedgerArgs}
        \cup {<<"get_balance", <<str(u)>> >> : u \in UserIds}

\* A thread enters _add_partnercode_sync or _get_balance_sync and sends its
\* first request (client.open_by_key): it blocks in the HTTP call.
RemoteCallBegin ==
    \E th \in Threads, call \in RemoteCalls :
        /\ threads[th].pc = "idle"
        /\ threads' = [threads EXCEPT
                          ![th] = [IdleThread EXCEPT !.pc = "waiting",
                                                     !.op = call[1],
                                                     !.args = call[2]]]
        /\ UNCHANGED <<users, sheet, clock, fsm, fsmData, tasks, last,
                       setCount, okCount, rejected, dbRet, sheetRet,
                       utcoffset, journal, handlers>>

\* The remote answers (with a result or an error) and the function runs to
\* its return.
RemoteAnswers ==
    \E th \in Threads, fault \in BOOLEAN :
        /\ threads[th].pc = "waiting"
        /\ LET a == threads[th].args
               preRow == find(sheet, a[1], 1) # 0
           IN  IF threads[th].op = "add_partnercode"
               THEN LET out == add_partnercode(sheet, a[1], a[2], a[3], a[4],
                                   a[5], IF fault THEN "find" ELSE "none")
                    IN  /\ sheet' = out.ws
                        /\ sheetRet' = SheetCall(out.ret, preRow, fault,
                                                 out.ws # sheet,
                                                 row_data(a[1], a[2], a[3],
                                                          a[4], a[5]))
               ELSE LET out == get_balance(sheet, a[1],
                                   IF fault THEN "find" ELSE "none")
                    IN  /\ sheet' = sheet
                        /\ sheetRet' =
                             [NoSheetCall EXCEPT
                                 !.op = "get_balance", !.args = <<a[1]>>,
                                 !.preRow = preRow, !.faulted = fault,
                                 !.raised = out.raised,
                                 !.balance = out.balance]
        /\ threads' = [threads EXCEPT ![th] = IdleThread]
        /\ UNCHANGED <<users, clock, fsm, fsmData, tasks, last, setCount,
                       okCount, rejected, dbRet, utcoffset, journal, handlers>>

\* The remote never answers the request the thread waits for. The client is
\* built by gspread.authorize(credentials) and no call sets a timeout, so
\* nothing ends the wait: no action leaves "hung".
RemoteSilent ==
    \E th \in Threads :
        /\ threads[th].pc = "waiting"
        /\ threads' = [threads EXCEPT ![th].pc = "hung"]
        /\ UNCHANGED <<users, sheet, clock, fsm, fsmData, tasks, last,
                       setCount, okCount, rejected, dbRet, sheetRet,
                       utcoffset, journal, handlers>>

NextRemote ==
    \/ RemoteCallBegin
    \/ RemoteAnswers
    \/ RemoteSilent

\* A request the remote answers is answered in the end, and the thread then
\* runs to its return.
SpecRemote == Init /\ [][NextRemote]_vars /\ WF_vars(RemoteAnswers)

\* C29 (as claimed): every add_partnercode and get_balance call returns in
\* the end, also when the remote ledger never answers.
C29_CallsReturn ==
    \A th \in Threads : (threads[th].pc # "idle") ~> (threads[th].pc = "idle")

\* ------------------------------------------------------------------------
\* The Ledger Client called in turn over a hand-edited sheet (SpecSheet)
\* ------------------------------------------------------------------------
\* Contribution cells written into the sheet by hand, over all rows.
MaxCells == 2

\* What a hand-written cell can hold.
Cells ==
    { <<"1", "0", "0", ".", "5", "0">>, <<"2", "0", "0", ".", "7", "5">>,
      <<"1", "0", "0", ",", "5", "0">>, <<"t", "e", "x", "t">>, <<>>,
      <<"-", "5", "0", ".", "2", "5">> }

\* The cells a row holds beyond the five add_partnercode writes.
RECURSIVE Credits(_)
Credits(ws) ==
    IF ws = <<>> THEN 0
    ELSE Credits(Tail(ws)) + (IF Len(Head(ws)) > 5 THEN Len(Head(ws)) - 5 ELSE 0)

\* add_partnercode called on its own, from its first line to its return.
RegisterPartner ==
    \E a \in LedgerArgs, fault \in LedgerFaults :
        LET out == add_partnercode(sheet, a[1], a[2], a[3], a[4], a[5], fault)
            preRow == find(sheet, a[1], 1) # 0
        IN  /\ sheet' = out.ws
            /\ sheetRet' =
                 [NoSheetCall EXCEPT
                     !.op = "add_partnercode", !.args = a, !.ret = out.ret,
                     !.preRow = preRow,
                     !.faulted = (fault = "find" \/ (fault = "append" /\ ~preRow)),
                     !.changed = (out.ws # sheet),
                     !.row = IF out.ws # sheet THEN out.ws[Len(out.ws)]
                                               ELSE <<>>]
            /\ UNCHANGED <<users, clock, fsm, fsmData, tasks, last, setCount,
                           okCount, rejected, threads, dbRet, utcoffset,
                           journal, handlers>>

\* Somebody with access to the spreadsheet writes the next cell of a
\* partner's row.
CreditCell ==
    \E r \in 2..Len(sheet), c \in Cells :
        /\ Credits(sheet) < MaxCells
        /\ sheet' = [sheet EXCEPT ![r] = Append(@, c)]
        /\ UNCHANGED <<users, clock, fsm, fsmData, tasks, last, setCount,
                       okCount, rejected, threads, dbRet, sheetRet, utcoffset,
                       journal, handlers>>

GetBalance ==
    \E u \in UserIds, fault \in BalanceFaults :
        LET out == get_balance(sheet, str(u), fault)
            cell == find(sheet, str(u), 1)
        IN  /\ sheetRet' =
                 [NoSheetCall EXCEPT
                     !.op = "get_balance", !.args = <<str(u)>>,
                     !.preRow = (cell # 0),
                     !.faulted = (fault = "find"
                                    \/ (fault = "row_values" /\ cell # 0)),
                     !.raised = out.raised, !.balance = out.balance,
                     !.row = IF cell # 0 THEN sheet[cell] ELSE <<>>]
            /\ UNCHANGED <<users, sheet, clock, fsm, fsmData, tasks, last,
                           setCount, okCount, rejected, threads, dbRet,
                           utcoffset, journal, handlers>>

TestConnection ==
    \E fault \in BOOLEAN :
        LET out == test_connection(sheet, fault)
        IN  /\ sheetRet' =
                 [NoSheetCall EXCEPT
                     !.op = "test_connection", !.faulted = fault,
                     !.raised = out.raised, !.ret = out.ret]
            /\ UNCHANGED <<users, sheet, clock, fsm, fsmData, tasks, last,
                           setCount, okCount, rejected, threads, dbRet,
                           utcoffset, journal, handlers>>

GetWorksheetInfo ==
    \E fault \in BOOLEAN :
        LET out == get_worksheet_info(sheet, fault)
        IN  /\ sheetRet' =
                 [NoSheetCall EXCEPT
                     !.op = "get_worksheet_info", !.faulted = fault,
                     !.raised = out.raised, !.value = out.value]
            /\ UNCHANGED <<users, sheet, clock, fsm, fsmData, tasks, last,
                           setCount, okCount, rejected, threads, dbRet,
                           utcoffset, journal, handlers>>

NextSheet ==
    \/ RegisterPartner
    \/ CreditCell
    \/ GetBalance
    \/ TestConnection
    \/ GetWorksheetInfo

SpecSheet == Init /\ [][NextSheet]_vars

C22_CommaDecimalCounts ==
    (sheetRet.op = "get_balance" /\ sheetRet.preRow /\ ~sheetRet.faulted)
        => LET row == sheetRet.row
               worth(c) ==
                   CASE c = <<"1", "0", "0", ".", "5", "0">> -> 10050
                     [] c = <<"1", "0", "0", ",", "5", "0">> -> 10050
                     [] c = <<"2", "0", "0", ".", "7", "5">> -> 20075
                     [] c = <<"-", "5", "0", ".", "2", "5">> -> 0 - 5025
                     [] c = <<"5">> -> 500
                     [] OTHER -> 0
               total[n \in 0..Len(row)] ==
                   IF n <= 4 THEN 0 ELSE total[n - 1] + worth(row[n])
           IN  sheetRet.balance = total[Len(row)]

\* C23: get_balance returns 0.0 and raises nothing when no row is keyed by
\* the id, and when a remote call raises inside it (get_client, the opening
\* of the spreadsheet or worksheet, find, row_values).
C23_BalanceDefaultsToZero ==
    (sheetRet.op = "get_balance" /\ (~sheetRet.preRow \/ sheetRet.faulted))
        => /\ ~sheetRet.raised
           /\ sheetRet.balance = 0

\* The read of a row that holds an amount raised, and 0.0 was returned.
C23_Witness ==
    /\ sheetRet.op = "get_balance" /\ sheetRet.preRow /\ sheetRet.faulted
    /\ \E i \in 6..Len(sheetRet.row) : float(sheetRet.row[i]).ok
    /\ ~sheetRet.raised /\ sheetRet.balance = 0

\* C24: the row add_partnercode appends is [id, name, contact, username,
\* referral_source]; a field that is None or blank is "-", any other field
\* is the argument without the blanks around it, and a username that is
\* present starts with exactly one "@" followed by the name, whether the
\* argument had the "@" or not.
C24_AppendedRow ==
    (sheetRet.op = "add_partnercode" /\ sheetRet.changed)
        => LET a == sheetRet.args
               row == sheetRet.row
               blank(v) == v = None \/ \A i \in 1..Len(v) : v[i] = " "
               trimmed(v, t) ==
                   \E i, j \in 1..Len(v) :
                       /\ t = SubSeq(v, i, j)
                       /\ v[i] # " " /\ v[j] # " "
                       /\ \A k \in 1..Len(v) : (k < i \/ k > j) => v[k] = " "
           IN  /\ Len(row) = 5
               /\ row[1] = a[1]
               /\ \A k \in 2..5 : blank(a[k]) => row[k] = <<"-">>
               /\ \A k \in {2, 3, 5} : ~blank(a[k]) => trimmed(a[k], row[k])
               /\ ~blank(a[4])
                     => /\ Len(row[4]) >= 2
                        /\ row[4][1] = "@" /\ row[4][2] # "@"
                        /\ \/ trimmed(a[4], row[4])
                           \/ trimmed(a[4], Tail(row[4]))

\* A row was appended for a username given without "@" and with blanks
\* around it, with an empty contact and a blank referral source.
C24_Witness ==
    /\ sheetRet.op = "add_partnercode" /\ sheetRet.changed
    /\ sheetRet.args[4] = <<" ", "b", "o", "b", " ">>
    /\ sheetRet.row = <<str(42), <<"B", "o">>, <<"-">>,
                        <<"@", "b", "o", "b">>, <<"-">> >>
    /\ sheet[Len(sheet)] = sheetRet.row

\* C27 (as claimed): get_worksheet_info, when the ledger is readable,
\* returns the number of rows with the header and the number of rows after
\* the header whose key column is not empty.
C27_WorksheetStats ==
    (sheetRet.op = "get_worksheet_info" /\ ~sheetRet.faulted)
        => /\ ~sheetRet.raised
           /\ sheetRet.value =
                 [row_count |-> Len(sheet),
                  partner_count |->
                      Cardinality({r \in 2..Len(sheet) :
                                      sheet[r] # <<>> /\ sheet[r][1] # <<>>})]

\* C28 (as claimed): no Ledger Client operation lets an exception reach its
\* caller; when a remote call raises, add_partnercode returns False,
\* get_balance 0.0, test_connection False and get_worksheet_info the empty
\* dict.
C28_NoExceptionPropagates ==
    /\ ~sheetRet.raised
    /\ sheetRet.faulted
          => /\ sheetRet.op \in {"add_partnercode", "test_connection"}
                   => ~sheetRet.ret
             /\ sheetRet.op = "get_balance" => sheetRet.balance = 0
             /\ sheetRet.op = "get_worksheet_info" => sheetRet.value = <<>>

\* ------------------------------------------------------------------------
\* Properties of the registration conversation (SpecRegister)
\* ------------------------------------------------------------------------
\* The record of u, as a sequence of at most one row.
Stored(db, u) == IF u \in DOMAIN db THEN <<db[u]>> ELSE <<>>

\* name is text without the blanks around it and has 2 to 50 characters.
TrimmedName(text, name) ==
    \E i, j \in 1..Len(text) :
        /\ i <= j /\ text[i] # " " /\ text[j] # " "
        /\ \A k \in 1..(i - 1) : text[k] = " "
        /\ \A k \in (j + 1)..Len(text) : text[k] = " "
        /\ j - i + 1 >= 2 /\ j - i + 1 <= 50
        /\ name = SubSeq(text, i, j)

\* C31: the registration flow changes the User Store only by creating a
\* record that was not there, with approved = false, for a user in the name
\* state whose message text, trimmed, has 2 to 50 characters and is the
\* stored name, and whose conversation data holds a phone, the stored one;
\* the conversation data receives a phone only from a contact in the phone
\* state. No other step of the flow creates or changes a record.
C31_CreateOnlyPending ==
    [][\A u \in UserIds :
          /\ Stored(users', u) # Stored(users, u) =>
                /\ Stored(users, u) = <<>> /\ Stored(users', u) # <<>>
                /\ users'[u].approved = FALSE
                /\ fsm[u] = "name"
                /\ fsmData[u] # <<>> /\ users'[u].phone = fsmData[u]
                /\ \E h \in BagToSet(handlers') :
                      /\ CopiesIn(h, handlers') = CopiesIn(h, handlers) + 1
                      /\ h.op = "process_name" /\ h.user = u
                      /\ TrimmedName(h.text, users'[u].name)
          /\ (fsmData'[u] # fsmData[u] /\ fsmData'[u] # <<>>) =>
                fsm[u] = "phone"]_vars

\* A registration has completed: the record is stored, pending, with the
\* trimmed name and the captured phone, and the conversation is over.
C31_Witness ==
    \E u \in UserIds :
        /\ last.op = "process_name" /\ last.result = "saved"
        /\ last.target = u /\ u \in DOMAIN users
        /\ users[u].approved = FALSE
        /\ users[u].name = <<"A", "l">> /\ users[u].phone = <<"+", "1">>
        /\ fsm[u] = "none"

\* The handler that finishes in this step, as a set of at most one.
Finishing(op, u) ==
    {h \in Suspended(op) :
        h.user = u /\ CopiesIn(h, handlers') = CopiesIn(h, handlers) - 1}

\* C33: the conversation state of a user moves only none -> phone -> name
\* -> none; it becomes phone only by /start of a user who is not the
\* administrator and has no record, and name only by a contact with a
\* phone number; a record is created only in the name state; a refused name
\* leaves the state and the store alone; a create attempt that completes,
\* successful or not, leaves the state cleared.
C33_ConversationOrder ==
    [][\A u \in UserIds :
          /\ fsm'[u] # fsm[u] =>
                <<fsm[u], fsm'[u]>> \in {<<"none", "phone">>,
                                         <<"phone", "name">>,
                                         <<"name", "none">>}
          /\ (fsm'[u] # fsm[u] /\ fsm'[u] = "phone") =>
                /\ Finishing("start_command", u) # {}
                /\ u # get_admin_user_id /\ u \notin DOMAIN users
          /\ (fsm'[u] # fsm[u] /\ fsm'[u] = "name") =>
                /\ Finishing("process_contact", u) # {}
                /\ fsmData[u] # <<>>
          /\ Stored(users', u) # Stored(users, u) => fsm[u] = "name"
          /\ (last' # last /\ last'.op = "process_name" /\ last'.target = u
                /\ last'.result = "invalid") =>
                /\ fsm[u] = "name" /\ fsm'[u] = "name"
                /\ users' = users
          /\ (\E h \in Finishing("process_name", u) :
                  h.result \in {"saved", "not_saved"}) =>
                fsm'[u] = "none"]_vars

\* ------------------------------------------------------------------------
\* Properties of the admission workflow (Spec), continued
\* ------------------------------------------------------------------------
\* C32: every external call of an approve invocation is a suspend point:
\* the store write and the ledger append are never one step, and the
\* approved flag is written by an invocation that was suspended since its
\* check of the flag, so that other handlers run in between.
C32_SuspendAtExternalCalls ==
    [][/\ ~(users' # users /\ sheet' # sheet)
       /\ \A u \in UserIds :
             (/\ u \in DOMAIN users /\ ~users[u].approved
              /\ u \in DOMAIN users' /\ users'[u].approved) =>
                \E t \in Tasks :
                    tasks[t].op = "approve" /\ tasks[t].target = u]_vars

\* ------------------------------------------------------------------------
\* Properties of the Ledger Client called in turn (SpecSheet), continued
\* ------------------------------------------------------------------------
\* C34: no cell add_partnercode writes counts in the balance: a get_balance
\* that reads, without a fault, a row holding only the five cells
\* add_partnercode appended returns 0.0.
C34_RegisteredRowHasNoBalance ==
    (sheetRet.op = "get_balance" /\ sheetRet.preRow /\ ~sheetRet.faulted
        /\ Len(sheetRet.row) = 5)
        => sheetRet.balance = 0

\* C35: an approve invocation that has reached its notifications, has sent
\* one, or has answered that the user is approved, is one whose
\* update_user_approval(id, True) succeeded and whose add_partnercode
\* returned True; the user it notifies is approved in the store and has a
\* row in the ledger.
C35_NotifiedOnlyAfterBoth ==
    \A inv \in {tasks[t] : t \in Tasks} \cup {last} :
        (/\ inv.op = "approve"
         /\ \/ inv.pc \in {"notify_user", "notify_group", "answer"}
            \/ inv.notes # {}
            \/ inv.result = "approved")
        => /\ inv.setOk /\ inv.ledgerOk
           /\ inv.target \in DOMAIN users
           /\ users[inv.target].approved
           /\ \E r \in 2..Len(sheet) : sheet[r][1] = str(inv.target)

\* An approval has completed with both notifications sent.
C35_Witness ==
    /\ last.op = "approve" /\ last.result = "approved"
    /\ last.notes = {"user_approved", "group_approved"}
    /\ last.setOk /\ last.ledgerOk
    /\ users[last.target].approved

\* C36: a rejection notification goes out only for a record that was pending
\* when the reject invocation read it: no invocation that started from an
\* approved record sends the rejection text to the user.
C36_RejectOnlyPending ==
    \A inv \in {tasks[t] : t \in Tasks} \cup {last} :
        (inv.op = "reject" /\ "user_rejected" \in inv.notes)
            => inv.preExists /\ ~inv.preApproved

\* ------------------------------------------------------------------------
\* Every handler that reads or writes the User Store (SpecWorkflow)
\* ------------------------------------------------------------------------
NextWorkflow ==
    \/ RegisterUser
    \/ ApproveUser
    \/ ApproveNotifyUser
    \/ ApproveNotifyGroup
    \/ ApproveAnswer
    \/ RejectUser
    \/ RejectNotifyUser
    \/ RejectNotifyGroup
    \/ RejectAnswer
    \/ CheckBalance
    \/ GetReferralLink

\* Registration, approval, rejection and the two menu buttons side by side.
SpecWorkflow == Init /\ [][NextWorkflow]_vars

\* C37: approval is monotonic under the workflow: no step of a
\* registration, approve, reject, balance or referral-link invocation takes
\* a record away or changes an approved record; an approved record stays
\* approved.
C37_ApprovalMonotonic ==
    [][\A u \in DOMAIN users :
          /\ u \in DOMAIN users'
          /\ users[u].approved => users'[u].approved]_vars

\* An approved user was rejected afterwards and then asked for the balance:
\* the record is still there and still approved.
C37_Witness ==
    \E u \in DOMAIN users :
        /\ users[u].approved /\ rejected[u] /\ okCount[u] > 0
        /\ last.op = "check_balance" /\ last.target = u /\ last.gate

\* ------------------------------------------------------------------------
\* Properties of the User Store called directly (SpecStore), continued
\* ------------------------------------------------------------------------
\* C38: in every state of the store, the list get_pending_users returns and
\* the list get_approved_users returns (neither query faulting) partition
\* the table: every stored id is in exactly one of them, exactly once, no
\* other id is in either, and their lengths add up to the number of rows.
C38_ListsPartition ==
    \A pending \in get_pending_users(users, FALSE) :
      \A approved \in get_approved_users(users, FALSE) :
        LET both == Ids(pending) \o Ids(approved)
        IN  /\ \A id \in DOMAIN users :
                  Cardinality({i \in 1..Len(both) : both[i] = id}) = 1
            /\ \A i \in 1..Len(both) : both[i] \in DOMAIN users
            /\ Len(pending) + Len(approved) = Cardinality(DOMAIN users)

\* The approved list was read from a table that holds a pending and an
\* approved record.
C38_Witness ==
    /\ dbRet.op = "get_approved_users" /\ ~dbRet.fault
    /\ Len(dbRet.rows) = 1
    /\ \E u, v \in DOMAIN users : users[u].approved /\ ~users[v].approved

\* ------------------------------------------------------------------------
\* The balance of a ledger with rows that share a key (SpecBalance)
\* ------------------------------------------------------------------------
NextBalance ==
    \/ AddPartnercodeFind
    \/ AddPartnercodeAppend
    \/ GetBalance

\* Registrations racing in two threads, which can leave two rows with one
\* key and different referral sources, and balance reads.
SpecBalance == Init /\ [][NextBalance]_vars

\* C39: get_balance is a pure read of one row: the step that returns a
\* balance changes neither the worksheet nor the users table, and when no
\* remote call raises, the balance is the sum, from the fifth cell on, of
\* the first row whose first cell is the id; further rows with that key
\* add nothing.
C39_BalanceReadsFirstRow ==
    [][(sheetRet' # sheetRet /\ sheetRet'.op = "get_balance") =>
          /\ sheet' = sheet /\ users' = users
          /\ \A r \in 2..Len(sheet) :
                (/\ ~sheetRet'.faulted
                 /\ sheet[r][1] = sheetRet'.args[1]
                 /\ \A q \in 2..(r - 1) : sheet[q][1] # sheetRet'.args[1])
                => LET row == sheet[r]
                       worth(c) ==
                           CASE c = <<"1", "0", "0", ".", "5", "0">> -> 10050
                             [] c = <<"2", "0", "0", ".", "7", "5">> -> 20075
                             [] c = <<"-", "5", "0", ".", "2", "5">> -> 0 - 5025
                             [] c = <<"5">> -> 500
                             [] OTHER -> 0
                       total[n \in 0..Len(row)] ==
                           IF n <= 4 THEN 0 ELSE total[n - 1] + worth(row[n])
                   IN  sheetRet'.balance = total[Len(row)]]_vars

\* A balance was read for an id that keys two rows: the first row sums to
\* nothing and 0.0 was returned, though the second row holds a 5.
C39_Witness ==
    /\ sheetRet.op = "get_balance" /\ ~sheetRet.faulted
    /\ \E r, q \in 2..Len(sheet) :
          /\ r < q
          /\ sheet[r][1] = sheetRet.args[1] /\ sheet[q][1] = sheetRet.args[1]
          /\ sheet[r][5] = <<"-">> /\ sheet[q][5] = <<"5">>
    /\ sheetRet.balance = 0

====
